---- MODULE Spec2Model ----
(***************************************************************************)
(* A model of the mempool crate (src/src/lib.rs): a Pool is an Arc around  *)
(* a _Pool holding a Stack of spares (a Vec behind a SpinLock) and a       *)
(* constructor.  Pool::get / Pool::get_ref pop a spare or construct one    *)
(* and wrap it in a Guard / RefGuard; dropping the guard pushes the value  *)
(* back.  Every step below is one access to shared memory, in the order    *)
(* the code performs them.                                                 *)
(***************************************************************************)
EXTENDS Integers, Sequences, FiniteSets, Bags, TLC

\* Bounds of the model.
NumThreads == 2
MaxGuards == 2
MaxPools == 2
MaxHeld == 4

Threads == 1..NumThreads

VARIABLES
  locked,    \* SpinLock.locked
  stack,     \* Stack.stack, the Vec of spares
  count,     \* the counter captured by the constructor of tests::dummy
  strong,    \* the strong count of the Arc<_Pool>
  alive,     \* the _Pool allocation has not been destroyed
  pools,     \* the number of Pool variables (the first and its clones)
  guards,    \* the bag of guards that exist and are not being dropped
  thr,       \* each thread's position and locals
  peakOut,   \* the largest number of values checked out at once so far
  peakNeed,  \* the largest number of values checked out plus acquisitions
             \* that found the stack empty, so far
  sequential,\* every get so far was called with no guard in existence and
             \* no other get in progress
  recent,    \* the values pushed and not popped since, the oldest first
  twin,      \* two pools given the same calls by one thread, one through
             \* get and one through get_ref
  owner,     \* thread-affine pool: the identity in the owner slot
  global,    \* thread-affine pool: the fallback mapping, identity -> value
  mutex,     \* thread-affine pool: the lock of the fallback mapping is held
  nextId,    \* the process-wide counter of thread identities
  aff        \* thread-affine pool: each thread's position, identity, the
             \* value its last get returned and the path that get took

poolVars == <<locked, stack, count, strong, alive, pools, guards, thr,
              peakOut, peakNeed, sequential, recent>>

affineVars == <<owner, global, mutex, nextId, aff>>

vars == <<poolVars, twin, affineVars>>

\* Option<T>: None and Some(v).
None == <<>>
Some(v) == <<v>>
Unwrap(o) == o[1]

Max(a, b) == IF a >= b THEN a ELSE b

\* Dummy(n) is modelled by n.
Dummy(n) == n

\* A thread: its position; the kind of guard it makes or drops; the
\* Option<T> it carries; the data field of the guard it drops and the calls
\* of Pool::put that drop has made.
IdleThread == [pc |-> "idle", kind |-> "none", data |-> None,
               slot |-> None, puts |-> 0]

(***************************************************************************)
(* Pure parts of the code.                                                 *)
(***************************************************************************)

\* A faulty pop that removes the value and reports an empty stack.
VecPopNone(s) == None
\* Vec::pop as used by Stack::pop: the value returned ...
VecPopData(s) == IF s = <<>> THEN None ELSE Some(s[Len(s)])
\* A faulty pop that reads the last value and leaves it in the Vec.
VecPopKeep(s) == s
\* ... and the Vec it leaves.
VecPopRest(s) == IF s = <<>> THEN s ELSE SubSeq(s, 1, Len(s) - 1)

\* A faulty push that puts the value at the front of the Vec.
VecPushFront(s, v) == <<v>> \o s
\* A faulty push that loses the value.
VecPushLost(s, v) == s
\* A faulty push that overwrites the Vec.
VecPushReplace(s, v) == <<v>>
\* Vec::push as used by Stack::push.
VecPush(s, v) == Append(s, v)

\* A faulty constructor call that yields the first value again.
CreateStale(n) == Dummy(0)
\* The constructor of tests::dummy: Dummy(count.fetch_add(1)).
CreateValue(n) == Dummy(n)
CreateCount(n) == n + 1

\* AtomicBool::swap(true): the value stored, and whether the loop of
\* SpinLock::lock exits (the swap returned false).
SwapStore(l) == TRUE
\* A faulty lock whose loop exits whatever the swap returned.
LockAlways(l) == TRUE
LockAcquired(l) == ~l

\* A faulty unlock that leaves the flag set.
UnlockStuck == TRUE
\* SpinLock::unlock stores false.
UnlockStore == FALSE

\* Arc::clone and Arc::drop on the strong count.
ArcClone(n) == n + 1
ArcDrop(n) == n - 1

\* Option::take: what the caller gets and what the slot keeps.
TakeData(o) == o
TakeRest(o) == None

(***************************************************************************)
(* Derived views of the state.                                             *)
(***************************************************************************)

GetPcs == {"pop_lock", "pop_body", "pop_unlock", "arm", "create"}
DropPcs == {"push_lock", "push_body", "push_unlock", "release"}
CriticalPcs == {"pop_body", "pop_unlock", "push_body", "push_unlock"}

InGet(t) == thr[t].pc \in GetPcs
InDrop(t) == thr[t].pc \in DropPcs
HoldsLock(t) == thr[t].pc \in CriticalPcs

\* The guards that exist: those at rest and those being dropped.
Dropping == {t \in Threads : InDrop(t)}
NumGuards == BagCardinality(guards) + Cardinality(Dropping)

\* A get has found the stack empty and has not constructed yet.
PendingCreate(t) ==
  thr[t].pc \in {"pop_unlock", "arm", "create"} /\ thr[t].data = None

\* The values checked out: held by a guard at rest or carried by a get or
\* drop in progress; and that plus the pending constructions.
Out == BagCardinality(guards) + Cardinality({t \in Threads : thr[t].data # None})
Need == Out + Cardinality({t \in Threads : PendingCreate(t)})

\* The borrows of Pool variables: each get in progress holds &self, each
\* RefGuard holds the &Pool it was made from.  All Pool variables point at
\* the same _Pool, so only their number matters.
Borrows ==
  Cardinality({t \in Threads : InGet(t)})
    + Cardinality({t \in Threads : InDrop(t) /\ thr[t].kind = "RefGuard"})
    + BagCardinality([g \in {x \in BagToSet(guards) : x.kind = "RefGuard"}
                        |-> guards[g]])

(***************************************************************************)
(* Initial state: let pool = Pool::new(dummy()).                           *)
(***************************************************************************)

Init ==
  /\ locked = FALSE
  /\ stack = <<>>
  /\ count = 0
  /\ strong = 1
  /\ alive = TRUE
  /\ pools = 1
  /\ guards = EmptyBag
  /\ thr = [t \in Threads |-> IdleThread]

\* Dropping one strong reference; the last one destroys the _Pool and,
\* with it, the Vec and the spares in it.
ReleaseRef ==
  /\ strong' = ArcDrop(strong)
  /\ IF ArcDrop(strong) = 0
       THEN alive' = FALSE /\ stack' = <<>>
       ELSE UNCHANGED <<alive, stack>>

\* A faulty guard literal that leaves the data field empty.
GuardEmpty(t, d) == [kind |-> thr[t].kind, data |-> None]
\* The guard literal of get / get_ref: Guard { pool: self.clone(), data }
\* or RefGuard { pool: self, data }.
GuardOf(t, d) == [kind |-> thr[t].kind, data |-> d]

NewGuard(t, d) == guards' = guards (+) SetToBag({GuardOf(t, d)})

(***************************************************************************)
(* Pool variables.                                                         *)
(***************************************************************************)

\* impl Clone for Pool.
ClonePool ==
  /\ pools >= 1 /\ pools < MaxPools
  /\ pools' = pools + 1
  /\ strong' = ArcClone(strong)
  /\ UNCHANGED <<locked, stack, count, alive, guards, thr>>

\* A Pool variable goes out of scope; the borrow checker allows it only
\* when that variable is not borrowed, so some variable must remain for
\* the borrows there are.
DropPool ==
  /\ pools >= 1
  /\ pools = 1 => Borrows = 0
  /\ pools' = pools - 1
  /\ ReleaseRef
  /\ UNCHANGED <<locked, count, guards, thr>>

(***************************************************************************)
(* Pool::get (k = "Guard") and Pool::get_ref (k = "RefGuard").             *)
(***************************************************************************)

\* The call: the thread enters Stack::pop.
Get(t, k) ==
  /\ thr[t].pc = "idle"
  /\ pools >= 1
  /\ NumGuards + Cardinality({u \in Threads : InGet(u)}) < MaxGuards
  /\ thr' = [thr EXCEPT ![t] = [pc |-> "pop_lock", kind |-> k,
                                data |-> None, slot |-> None, puts |-> 0]]
  /\ UNCHANGED <<locked, stack, count, strong, alive, pools, guards>>

\* SpinLock::lock: one swap; the loop ends when the swap returned false.
Lock(t) ==
  /\ thr[t].pc \in {"pop_lock", "push_lock"}
  /\ locked' = SwapStore(locked)
  /\ thr' = [thr EXCEPT ![t].pc =
               IF LockAcquired(locked)
                 THEN (IF @ = "pop_lock" THEN "pop_body" ELSE "push_body")
                 ELSE @]
  /\ UNCHANGED <<stack, count, strong, alive, pools, guards>>

\* Stack::pop: let data = stack.pop().
PopBody(t) ==
  /\ thr[t].pc = "pop_body"
  /\ stack' = VecPopRest(stack)
  /\ thr' = [thr EXCEPT ![t].data = VecPopData(stack), ![t].pc = "pop_unlock"]
  /\ UNCHANGED <<locked, count, strong, alive, pools, guards>>

\* A faulty pop that returns without unlocking.
PopReturnLocked(t) ==
  /\ thr[t].pc = "pop_unlock"
  /\ thr' = [thr EXCEPT ![t].pc = "arm"]
  /\ UNCHANGED <<locked, stack, count, strong, alive, pools, guards>>

\* Stack::pop: self.lock.unlock(), and pop returns.
PopUnlock(t) ==
  /\ thr[t].pc = "pop_unlock"
  /\ locked' = UnlockStore
  /\ thr' = [thr EXCEPT ![t].pc = "arm"]
  /\ UNCHANGED <<stack, count, strong, alive, pools, guards>>

\* A faulty match that constructs whatever pop returned.
ArmAlwaysNone(d) == TRUE
\* The match of get / get_ref on what pop returned: the None arm is taken.
ArmIsNone(d) == d = None

\* A Guard built without a reference of its own.
GuardRefNone(k, n) == n
\* The strong count after the pool field of the guard literal is evaluated:
\* get has pool: self.clone(), get_ref has pool: self.
GuardRef(k, n) == IF k = "Guard" THEN ArcClone(n) ELSE n

\* The match of get / get_ref.  get evaluates self.clone() first; the Some
\* arm then completes the guard, the None arm goes on to the constructor.
Arm(t) ==
  /\ thr[t].pc = "arm"
  /\ strong' = GuardRef(thr[t].kind, strong)
  /\ IF ArmIsNone(thr[t].data)
       THEN /\ thr' = [thr EXCEPT ![t].pc = "create"]
            /\ UNCHANGED guards
       ELSE /\ NewGuard(t, thr[t].data)
            /\ thr' = [thr EXCEPT ![t] = IdleThread]
  /\ UNCHANGED <<locked, stack, count, alive, pools>>

\* The None arm: (self.0.create)() returns and the guard is complete.
Create(t) ==
  /\ thr[t].pc = "create"
  /\ count' = CreateCount(count)
  /\ NewGuard(t, Some(CreateValue(count)))
  /\ thr' = [thr EXCEPT ![t] = IdleThread]
  /\ UNCHANGED <<locked, stack, strong, alive, pools>>

\* The None arm with a constructor that panics: unwinding drops the clone
\* get made, and the panic reaches the caller.
CreatePanic(t) ==
  /\ thr[t].pc = "create"
  /\ IF thr[t].kind = "Guard"
       THEN ReleaseRef
       ELSE UNCHANGED <<strong, alive, stack>>
  /\ thr' = [thr EXCEPT ![t] = IdleThread]
  /\ UNCHANGED <<locked, count, pools, guards>>

(***************************************************************************)
(* impl Drop for Guard / RefGuard.                                         *)
(***************************************************************************)

\* A faulty drop that never calls put.
AfterTakeSkip == "release"
\* Where drop goes after self.data.take().unwrap(): self.pool.put(data).
AfterTake == "push_lock"

\* drop is called for the guard g, by whichever thread owns it now:
\* let data = self.data.take().unwrap(), then the thread enters Stack::push.
DropGuard(t, g) ==
  /\ thr[t].pc = "idle"
  /\ BagIn(g, guards)
  /\ guards' = guards (-) SetToBag({g})
  /\ thr' = [thr EXCEPT ![t] = [pc |-> AfterTake, kind |-> g.kind,
                                data |-> TakeData(g.data),
                                slot |-> TakeRest(g.data), puts |-> 0]]
  /\ UNCHANGED <<locked, stack, count, strong, alive, pools>>

\* Stack::push: stack.push(data).
PushBody(t) ==
  /\ thr[t].pc = "push_body"
  /\ stack' = VecPush(stack, Unwrap(thr[t].data))
  /\ thr' = [thr EXCEPT ![t].data = None, ![t].pc = "push_unlock",
                        ![t].puts = @ + 1]
  /\ UNCHANGED <<locked, count, strong, alive, pools, guards>>

\* A faulty push that returns without unlocking.
PushReturnLocked(t) ==
  /\ thr[t].pc = "push_unlock"
  /\ thr' = IF thr[t].kind = "Guard"
              THEN [thr EXCEPT ![t].pc = "release"]
              ELSE [thr EXCEPT ![t] = IdleThread]
  /\ UNCHANGED <<locked, stack, count, strong, alive, pools, guards>>

\* Stack::push: self.lock.unlock(); put and drop return.  A RefGuard is
\* gone at this point; a Guard still has its pool field to drop.
PushUnlock(t) ==
  /\ thr[t].pc = "push_unlock"
  /\ locked' = UnlockStore
  /\ thr' = IF thr[t].kind = "Guard"
              THEN [thr EXCEPT ![t].pc = "release"]
              ELSE [thr EXCEPT ![t] = IdleThread]
  /\ UNCHANGED <<stack, count, strong, alive, pools, guards>>

\* After Guard::drop returned, the field pool: Pool<T> is dropped.
Release(t) ==
  /\ thr[t].pc = "release"
  /\ ReleaseRef
  /\ thr' = [thr EXCEPT ![t] = IdleThread]
  /\ UNCHANGED <<locked, count, pools, guards>>

(***************************************************************************)
(* Pool::get, Pool::get_ref and the two drops as one thread runs them, from *)
(* call to return, on a pool [stack, count, strong, held]: held lists the  *)
(* values of the guards the thread holds, in the order it acquired them.   *)
(***************************************************************************)

NewPool == [stack |-> <<>>, count |-> 0, strong |-> 1, held |-> <<>>]

\* Pool::get: match self.0.stack.pop(), Guard { pool: self.clone(), .. }.
PoolGet(p) ==
  LET data == VecPopData(p.stack)
      q == [p EXCEPT !.stack = VecPopRest(@), !.strong = ArcClone(@)]
  IN  IF ArmIsNone(data)
        THEN [q EXCEPT !.count = CreateCount(@),
                       !.held = Append(@, CreateValue(p.count))]
        ELSE [q EXCEPT !.held = Append(@, Unwrap(data))]

\* Pool::get_ref: match self.0.stack.pop(), RefGuard { pool: self, .. }.
PoolGetRef(p) ==
  LET data == VecPopData(p.stack)
      q == [p EXCEPT !.stack = VecPopRest(@)]
  IN  IF ArmIsNone(data)
        THEN [q EXCEPT !.count = CreateCount(@),
                       !.held = Append(@, CreateValue(p.count))]
        ELSE [q EXCEPT !.held = Append(@, Unwrap(data))]

\* The guards left after the i-th is dropped.
Without(h, i) == SubSeq(h, 1, i - 1) \o SubSeq(h, i + 1, Len(h))

\* impl Drop for Guard on the i-th guard held, and the drop of its pool
\* field.
GuardDrop(p, i) ==
  [p EXCEPT !.stack = VecPush(@, Unwrap(TakeData(Some(p.held[i])))),
            !.held = Without(@, i),
            !.strong = ArcDrop(@)]

\* A faulty drop of a RefGuard that never calls put.
RefGuardLeak(p, i) == [p EXCEPT !.held = Without(@, i)]
\* impl Drop for RefGuard on the i-th guard held.
RefGuardDrop(p, i) ==
  [p EXCEPT !.stack = VecPush(@, Unwrap(TakeData(Some(p.held[i])))),
            !.held = Without(@, i)]

\* The same call on both pools: get on one, get_ref on the other.
TwinAcquire ==
  /\ Len(twin.g.held) < MaxHeld
  /\ twin' = [g |-> PoolGet(twin.g), r |-> PoolGetRef(twin.r)]
  /\ UNCHANGED <<poolVars, affineVars>>

\* The i-th guard acquired and still held is dropped, on both pools.
TwinDrop(i) ==
  /\ i \in 1..Len(twin.g.held) /\ i \in 1..Len(twin.r.held)
  /\ twin' = [g |-> GuardDrop(twin.g, i), r |-> RefGuardDrop(twin.r, i)]
  /\ UNCHANGED <<poolVars, affineVars>>

(***************************************************************************)
(* The thread-affine pool: an owner slot with one value built when the     *)
(* pool is made, claimed by the first thread through a compare-and-swap of *)
(* the owner identity from 0; every other thread goes to a mapping from    *)
(* thread identity to value, behind a lock.  get returns a reference and   *)
(* there is nothing to release.                                            *)
(***************************************************************************)

\* The owner identity of a pool nobody owns; thread identities start above.
Unowned == 0
FirstId == Unowned + 1

\* The value built with the pool, in the owner slot.
Local == CreateValue(0)

IdleAffine == [pc |-> "idle", id |-> Unowned, got |-> None, path |-> "none"]

\* A faulty compare-and-swap that reports success whatever it found.
CasAlways(cur) == TRUE
\* compare-and-swap of the owner identity from Unowned to id: whether it
\* succeeds, and what the slot holds afterwards.
CasSucceeds(cur) == cur = Unowned
CasStore(cur, id) == IF cur = Unowned THEN id ELSE cur

\* The fallback mapping with the entry id -> v added.
Insert(m, id, v) ==
  [i \in DOMAIN m \cup {id} |-> IF i = id THEN v ELSE m[i]]

AffineInit ==
  /\ owner = Unowned
  /\ global = [i \in {} |-> Local]
  /\ mutex = FALSE
  /\ nextId = FirstId
  /\ aff = [t \in Threads |-> IdleAffine]

restVars == <<locked, stack, strong, alive, pools, guards, thr,
              peakOut, peakNeed, sequential, recent, twin>>

\* The call of get.
AffineGet(t) ==
  /\ aff[t].pc = "idle"
  /\ aff' = [aff EXCEPT ![t].pc = "tid"]
  /\ UNCHANGED <<owner, global, mutex, nextId, count, restVars>>

\* The identity of the calling thread: taken from the counter on first
\* use, and kept.
ThreadId(t) ==
  /\ aff[t].pc = "tid"
  /\ IF aff[t].id = Unowned
       THEN /\ aff' = [aff EXCEPT ![t].id = nextId, ![t].pc = "load"]
            /\ nextId' = nextId + 1
       ELSE /\ aff' = [aff EXCEPT ![t].pc = "load"]
            /\ UNCHANGED nextId
  /\ UNCHANGED <<owner, global, mutex, count, restVars>>

\* The load of the owner identity: the owner returns the value of the
\* slot at once, a thread that finds no owner tries to become it, any other
\* goes to the fallback mapping.
LoadOwner(t) ==
  /\ aff[t].pc = "load"
  /\ aff' = IF owner = aff[t].id
              THEN [aff EXCEPT ![t].pc = "idle", ![t].got = Some(Local),
                               ![t].path = "fast"]
              ELSE IF owner = Unowned
                THEN [aff EXCEPT ![t].pc = "cas"]
                ELSE [aff EXCEPT ![t].pc = "mlock"]
  /\ UNCHANGED <<owner, global, mutex, nextId, count, restVars>>

\* The compare-and-swap: the winner returns the value of the slot, a loser
\* falls through to the fallback mapping.
Cas(t) ==
  /\ aff[t].pc = "cas"
  /\ owner' = CasStore(owner, aff[t].id)
  /\ aff' = IF CasSucceeds(owner)
              THEN [aff EXCEPT ![t].pc = "idle", ![t].got = Some(Local),
                               ![t].path = "fast"]
              ELSE [aff EXCEPT ![t].pc = "mlock", ![t].path = "lost"]
  /\ UNCHANGED <<global, mutex, nextId, count, restVars>>

\* The lock of the fallback mapping is acquired.
MutexLock(t) ==
  /\ aff[t].pc = "mlock"
  /\ ~mutex
  /\ mutex' = TRUE
  /\ aff' = [aff EXCEPT ![t].pc = "lookup"]
  /\ UNCHANGED <<owner, global, nextId, count, restVars>>

\* The lookup of the thread's identity: the cached value if present.
Lookup(t) ==
  /\ aff[t].pc = "lookup"
  /\ aff' = IF aff[t].id \in DOMAIN global
              THEN [aff EXCEPT ![t].pc = "munlock",
                               ![t].got = Some(global[aff[t].id])]
              ELSE [aff EXCEPT ![t].pc = "construct"]
  /\ UNCHANGED <<owner, global, mutex, nextId, count, restVars>>

\* Absent: the constructor is invoked and its value inserted.
Construct(t) ==
  /\ aff[t].pc = "construct"
  /\ count' = CreateCount(count)
  /\ global' = Insert(global, aff[t].id, CreateValue(count))
  /\ aff' = [aff EXCEPT ![t].pc = "munlock",
                        ![t].got = Some(CreateValue(count))]
  /\ UNCHANGED <<owner, mutex, nextId, restVars>>

\* The lock is released and get returns.
MutexUnlock(t) ==
  /\ aff[t].pc = "munlock"
  /\ mutex' = FALSE
  /\ aff' = [aff EXCEPT ![t].pc = "idle", ![t].path = "fallback"]
  /\ UNCHANGED <<owner, global, nextId, count, restVars>>

(***************************************************************************)
(* The specifications.                                                     *)
(***************************************************************************)

\* The body of Stack::push / Stack::pop runs in this step.
Pushes(t) == thr[t].pc = "push_body" /\ thr'[t].pc = "push_unlock"
Pops(t) == thr[t].pc = "pop_body" /\ thr'[t].pc = "pop_unlock"

\* The values pushed and not popped since, after this step: a push adds the
\* value it was given, a pop that returned Some(v) removes v, and the
\* destruction of the _Pool drops them all.
RecentAfter ==
  IF ~alive' THEN <<>>
  ELSE IF \E t \in Threads : Pushes(t)
    THEN Append(recent, Unwrap(thr[CHOOSE t \in Threads : Pushes(t)].data))
  ELSE IF \E t \in Threads : Pops(t) /\ thr'[t].data # None
    THEN LET v == Unwrap(thr'[CHOOSE t \in Threads : Pops(t)].data)
         IN  SelectSeq(recent, LAMBDA x : x # v)
  ELSE recent

\* The history variables follow every step.
Track ==
  /\ UNCHANGED <<twin, affineVars>>
  /\ recent' = RecentAfter
  /\ peakOut' = Max(peakOut, Out')
  /\ peakNeed' = Max(peakNeed, Need')
  /\ sequential' =
       (sequential /\ ~\E t \in Threads :
                         /\ thr[t].pc = "idle" /\ InGet(t)'
                         /\ (NumGuards > 0 \/ \E u \in Threads : InGet(u)))

InitAll ==
  /\ Init /\ peakOut = 0 /\ peakNeed = 0 /\ sequential = TRUE /\ recent = <<>>
  /\ twin = [g |-> NewPool, r |-> NewPool]
  /\ AffineInit

Kinds == {"Guard", "RefGuard"}

Next ==
  \/ \E t \in Threads, k \in Kinds : Get(t, k) /\ Track
  \/ \E t \in Threads, g \in BagToSet(guards) : DropGuard(t, g) /\ Track
  \/ ClonePool /\ Track
  \/ DropPool /\ Track
  \/ \E t \in Threads : Lock(t) /\ Track
  \/ \E t \in Threads : PopBody(t) /\ Track
  \/ \E t \in Threads : PopUnlock(t) /\ Track
  \/ \E t \in Threads : Arm(t) /\ Track
  \/ \E t \in Threads : Create(t) /\ Track
  \/ \E t \in Threads : PushBody(t) /\ Track
  \/ \E t \in Threads : PushUnlock(t) /\ Track
  \/ \E t \in Threads : Release(t) /\ Track

\* The constructor of the tests, which always returns.
Spec == InitAll /\ [][Next]_vars

\* The steps of the call thread t is in.
Step(t) ==
  \/ Lock(t) /\ Track
  \/ PopBody(t) /\ Track
  \/ PopUnlock(t) /\ Track
  \/ Arm(t) /\ Track
  \/ Create(t) /\ Track
  \/ PushBody(t) /\ Track
  \/ PushUnlock(t) /\ Track
  \/ Release(t) /\ Track

\* Fair scheduling of the threads: a thread whose next step stays possible
\* takes it.  Nothing obliges the program to call get or to drop a guard.
FairSpec == Spec /\ \A t \in Threads : WF_vars(Step(t))

\* A constructor that may panic.
NextPanic ==
  \/ Next
  \/ \E t \in Threads : CreatePanic(t) /\ Track
SpecPanic == InitAll /\ [][NextPanic]_vars

\* One thread and two pools: every call is made on both.
NextTwin ==
  \/ TwinAcquire
  \/ \E i \in 1..MaxHeld : TwinDrop(i)
SpecTwin == InitAll /\ [][NextTwin]_vars

\* A fresh thread-affine pool; its constructor has run once, for the value
\* of the owner slot.
InitAffine ==
  /\ AffineInit
  /\ count = CreateCount(0)
  /\ locked = FALSE /\ stack = <<>> /\ strong = 1 /\ alive = TRUE
  /\ pools = 1 /\ guards = EmptyBag /\ thr = [t \in Threads |-> IdleThread]
  /\ peakOut = 0 /\ peakNeed = 0 /\ sequential = TRUE /\ recent = <<>>
  /\ twin = [g |-> NewPool, r |-> NewPool]

NextAffine ==
  \/ \E t \in Threads : AffineGet(t)
  \/ \E t \in Threads : ThreadId(t)
  \/ \E t \in Threads : LoadOwner(t)
  \/ \E t \in Threads : Cas(t)
  \/ \E t \in Threads : MutexLock(t)
  \/ \E t \in Threads : Lookup(t)
  \/ \E t \in Threads : Construct(t)
  \/ \E t \in Threads : MutexUnlock(t)
SpecAffine == InitAffine /\ [][NextAffine]_vars

(***************************************************************************)
(* Where the values are.                                                   *)
(***************************************************************************)

Values == 0..(count - 1)

\* The guards at rest that hold v.
AtRest(v) ==
  LET held == {g \in BagToSet(guards) : g.data = Some(v)}
  IN  IF held = {} THEN 0 ELSE BagCardinality([g \in held |-> guards[g]])

\* The calls in progress that carry v: a get that popped it, or a drop,
\* in its local data or still in the data field of its guard.
InTransit(v) ==
  Cardinality({t \in Threads : thr[t].data = Some(v)})
    + Cardinality({t \in Threads : thr[t].slot = Some(v)})

\* The positions of the stack that hold v.
InStack(v) == Cardinality({i \in 1..Len(stack) : stack[i] = Dummy(v)})

\* C1: each constructed value has at most one borrower: it is never held by
\* two guards (at rest or inside a get or drop) at once, and a value a guard
\* holds is never in the stack at the same time.
C1_OneBorrower ==
  \A v \in Values :
    /\ AtRest(v) + InTransit(v) <= 1
    /\ AtRest(v) + InTransit(v) = 1 => InStack(v) = 0

\* Two guards are live at once, with a value each.
C1_Witness ==
  /\ BagCardinality(guards) = 2
  /\ \E g1, g2 \in BagToSet(guards) : g1.data # None /\ g2.data # None
                                       /\ g1.data # g2.data

\* C2: the drop of a guard calls put exactly once: until its push the drop
\* has made no call and carries the value it took from the guard; from the
\* push until the guard is gone it has made one call and carries nothing,
\* and the guard's data field is empty, so nothing is left to push again.
C2_PutOnce ==
  \A t \in Threads :
    /\ thr[t].puts <= 1
    /\ thr[t].pc \in {"push_lock", "push_body"}
         => thr[t].puts = 0 /\ thr[t].data # None /\ thr[t].slot = None
    /\ thr[t].pc \in {"push_unlock", "release"}
         => thr[t].puts = 1 /\ thr[t].data = None /\ thr[t].slot = None

\* A Guard's drop has returned after its one put; the value is in the stack.
C2_Witness ==
  \E t \in Threads : /\ thr[t].pc = "release" /\ thr[t].puts = 1
                      /\ stack # <<>>

\* C8: while the pool exists every value the constructor has returned is
\* in exactly one place (the stack, a guard, or a get or drop in progress),
\* so count = spares + values held or in transit.
C8_NoValueLost ==
  alive =>
    /\ \A v \in Values : InStack(v) + AtRest(v) + InTransit(v) = 1
    /\ \A i \in 1..Len(stack) : stack[i] \in Values
    /\ count = Len(stack) + BagCardinality(guards)
                 + Cardinality({t \in Threads : thr[t].data # None})

\* A spare in the stack, a value in a guard, after both were in transit.
C8_Witness ==
  /\ count = 2 /\ Len(stack) = 1 /\ BagCardinality(guards) = 1

\* C3: as long as every get was called with no guard in existence (each guard
\* dropped before the next get), the constructor has been invoked at most
\* once, exactly once as soon as a get has returned, and every value a get
\* obtained is the first one, Dummy(0).
C3_PureReuse ==
  sequential =>
    /\ count <= 1
    /\ \A g \in BagToSet(guards) : count = 1 /\ g.data = Some(Dummy(0))
    /\ \A t \in Threads : thr[t].data \in {None, Some(Dummy(0))}
    /\ \A i \in 1..Len(stack) : stack[i] = Dummy(0)

\* A later get of a sequential run has popped the first value again.
C3_Witness ==
  /\ sequential /\ count = 1
  /\ \E t \in Threads : thr[t].pc = "arm" /\ thr[t].data = Some(Dummy(0))

\* The step of thread t that returns from its get with a new guard.
Returns(t) == InGet(t) /\ ~InGet(t)'

\* C4: pop reports None exactly when the stack is empty; a get that found
\* the stack empty invokes the constructor once, at its last step, and
\* returns a guard on the value just constructed; a get that popped a spare
\* never invokes the constructor and returns a guard on that spare.
C4_PopOrCreate ==
  [][\A t \in Threads :
       (thr'[t] # thr[t] /\ InGet(t)) =>
         /\ thr[t].pc = "pop_body" =>
              /\ (thr'[t].data = None) <=> (stack = <<>>)
              /\ stack # <<>> => thr'[t].data = Some(stack[Len(stack)])
         /\ ~Returns(t) => count' = count
         /\ Returns(t) =>
              IF thr[t].data = None
                THEN /\ count' = count + 1
                     /\ guards' = guards (+) SetToBag(
                           {[kind |-> thr[t].kind, data |-> Some(Dummy(count))]})
                ELSE /\ count' = count
                     /\ guards' = guards (+) SetToBag(
                           {[kind |-> thr[t].kind, data |-> thr[t].data]})]_vars

\* On a fresh pool the first get got Dummy(0) and a second get, made while
\* the first guard is live, got Dummy(1).
C4_Witness ==
  /\ count = 2 /\ stack = <<>>
  /\ \E g0, g1 \in BagToSet(guards) :
        g0.data = Some(Dummy(0)) /\ g1.data = Some(Dummy(1))

\* C5 as stated: the constructor has been invoked as many times as the peak
\* number of values checked out at the same time.
C5_Original == count = peakOut

\* C5, amended: the constructor is never invoked more often than the peak
\* demand, which counts the values checked out together with the gets that
\* found the stack empty and have not constructed yet; it has been invoked
\* exactly that often whenever no such get is pending, and at least as often
\* as the peak number of values checked out.
C5_PeakDemand ==
  /\ peakOut <= count
  /\ count + Cardinality({t \in Threads : PendingCreate(t)}) = peakNeed

\* Two constructions with never more than one value checked out: a get found
\* the stack empty while the only value was still held, and constructed after
\* that value had been pushed back.
C5_Witness == count = 2 /\ peakOut = 1 /\ peakNeed = 2

\* C6: the push of a drop puts the value into the shared stack, and whenever
\* the stack holds a spare the pop of a get by any thread takes one of the
\* spares in it, and that get returns without invoking the constructor.
C6_ReuseAfterDrop ==
  [][\A t \in Threads :
       thr'[t] # thr[t] =>
         /\ thr[t].pc = "push_body" =>
              /\ Len(stack') = Len(stack) + 1
              /\ \E i \in 1..Len(stack') : stack'[i] = Unwrap(thr[t].data)
         /\ (thr[t].pc = "pop_body" /\ stack # <<>>) =>
              /\ thr'[t].data # None
              /\ \E i \in 1..Len(stack) : thr'[t].data = Some(stack[i])
         /\ (InGet(t) /\ thr[t].data # None) =>
              count' = count /\ thr'[t].pc # "create"]_vars

\* One thread's drop has pushed the only value there is, and another thread,
\* with a clone of the Pool in existence, has popped it.
C6_Witness ==
  /\ count = 1 /\ pools = 2
  /\ \E t1, t2 \in Threads :
        /\ t1 # t2
        /\ thr[t1].pc = "release" /\ thr[t1].puts = 1
        /\ thr[t2].pc = "arm" /\ thr[t2].data = Some(Dummy(0))

\* The step of thread t in which the constructor panics and get unwinds.
Panics(t) == thr[t].pc = "create" /\ thr'[t].pc = "idle" /\ count' = count

\* C7: when the constructor panics, the get that called it ends without a
\* guard and leaves the pool as it was: the spinlock is held only by a
\* thread inside push or pop (never by the unwinding get), the failed get
\* has not changed the stack, the counter or the Pool variables, the pool
\* still exists, and the thread is free to call get again.
C7_PanicSafe ==
  /\ [](locked => \E t \in Threads : HoldsLock(t))
  /\ [](\A t \in Threads : thr[t].pc = "create" => ~HoldsLock(t) /\ alive)
  /\ [][\A t \in Threads :
          /\ (thr'[t] # thr[t] /\ InGet(t) /\ thr'[t].data = None)
               => stack' = stack
          /\ Panics(t) =>
               /\ thr'[t] = IdleThread /\ guards' = guards
               /\ locked' = locked /\ stack' = stack /\ pools' = pools
               /\ pools >= 1 /\ alive /\ alive'
               /\ strong' = IF thr[t].kind = "Guard" THEN strong - 1
                                                      ELSE strong]_vars

\* Every get so far has ended in a panic: a get found the stack empty, yet
\* nothing was ever constructed, no call is in progress and no guard exists.
C7_Witness ==
  /\ peakNeed >= 1 /\ count = 0
  /\ \A t \in Threads : thr[t] = IdleThread
  /\ guards = EmptyBag /\ ~locked /\ alive

\* The Guards in existence: at rest, being dropped, or being built by a get
\* that has evaluated self.clone().
NumOwning ==
  BagCardinality([g \in {x \in BagToSet(guards) : x.kind = "Guard"}
                    |-> guards[g]])
    + Cardinality({t \in Threads : thr[t].kind = "Guard"
                                     /\ (InDrop(t) \/ thr[t].pc = "create")})

\* C9: the _Pool exists as long as a guard exists or a call is in progress;
\* every Guard owns one strong reference of its own beside those of the Pool
\* variables, and it gives that reference up only after its push.
C9_PoolOutlivesGuards ==
  /\ (NumGuards > 0 \/ \E t \in Threads : thr[t].pc # "idle") => alive
  /\ alive <=> strong > 0
  /\ strong = pools + NumOwning
  /\ \A t \in Threads : thr[t].pc = "release" => thr[t].puts = 1

\* No Pool variable is left and a Guard's drop is pushing into the stack.
C9_Witness ==
  /\ pools = 0 /\ alive
  /\ \E t \in Threads : thr[t].pc = "push_body" /\ thr[t].kind = "Guard"

\* C10 as stated: every call a thread has started, get or drop, returns.
C10_Original ==
  \A t \in Threads : (thr[t].pc # "idle") ~> (thr[t].pc = "idle")

\* A call returns in this step.
Completes == \E t \in Threads : thr[t].pc # "idle" /\ thr'[t].pc = "idle"

\* C10, amended: a thread that has acquired the spinlock finishes its call
\* (past the lock a call can only go on to its return, so it is there again
\* and again only by returning), and the pool as a whole keeps going: calls
\* keep returning unless, from some point on, no call is in progress.  (A
\* single thread can spin for ever while others keep taking the spinlock.)
C10_Progress ==
  /\ \A t \in Threads :
        []<>(thr[t].pc \in {"idle", "pop_lock", "push_lock"})
  /\ ([]<>(\A t \in Threads : thr[t].pc = "idle")) \/ ([]<><<Completes>>_vars)

\* One thread spins on the spinlock while another holds it.
C10_Witness ==
  \E t, u \in Threads :
    thr[t].pc \in {"pop_lock", "push_lock"} /\ HoldsLock(u) /\ locked

\* The threads between a successful SpinLock::lock and their unlock.
Holders == {t \in Threads : HoldsLock(t)}

\* C12: at most one thread is between a swap that returned false and its
\* unlock, the flag is set for as long as it is, and so no two bodies of
\* Stack::push / Stack::pop touch the Vec at once.
C12_MutualExclusion ==
  /\ Cardinality(Holders) <= 1
  /\ Holders # {} => locked
  /\ Cardinality({t \in Threads : thr[t].pc \in {"pop_body", "push_body"}}) <= 1

\* One thread is in the body of push while another is in the loop of lock
\* on behalf of a pop.
C12_Witness ==
  \E t, u \in Threads :
    /\ t # u /\ locked
    /\ thr[t].pc = "push_body" /\ thr[u].pc = "pop_lock"

\* C13: the stack of spares is LIFO.  Stack::pop returns the value pushed
\* last among those pushed and not popped since, it returns None exactly
\* when the Vec is empty, and it removes what it returns; so a get that
\* finds spares hands out the one released last.
C13_Lifo ==
  [][\A t \in Threads : Pops(t) =>
        /\ thr'[t].data = None <=> stack = <<>>
        /\ thr'[t].data =
             (IF recent = <<>> THEN None ELSE Some(recent[Len(recent)]))
        /\ Len(stack') = Max(Len(stack) - 1, 0)
        /\ \A i \in 1..Len(stack') : Some(stack'[i]) # thr'[t].data]_vars

\* Dummy(1) was released before Dummy(0), and a pop has returned Dummy(0)
\* and left Dummy(1).
C13_Witness ==
  \E t \in Threads :
    /\ thr[t].pc = "pop_unlock" /\ thr[t].data = Some(Dummy(0))
    /\ stack = <<Dummy(1)>> /\ recent = <<Dummy(1)>>

\* The thread is past Stack::pop in get / get_ref: at the match, or in the
\* constructor.
Constructing(t) == thr[t].pc \in {"arm", "create"}

\* C14: the constructor runs with the spinlock released by the thread that
\* calls it.  While a thread is past its pop, the flag is set only on behalf
\* of another thread that is inside push or pop, so a thread in the loop of
\* lock is kept there by a holder, never by a thread that constructs.
C14_ConstructUnlocked ==
  \A t \in Threads : Constructing(t) =>
    /\ ~HoldsLock(t)
    /\ locked => \E u \in Threads \ {t} : HoldsLock(u)
    /\ (\A u \in Threads : Constructing(u)) => ~locked

\* One thread is in the constructor while another, which took the spinlock
\* meanwhile, is in the body of pop.
C14_Witness ==
  \E t, u \in Threads :
    /\ thr[t].pc = "create" /\ thr[u].pc = "pop_body"
    /\ locked /\ stack = <<>>

\* The thread is in the loop of SpinLock::lock.
Spinning(t) == thr[t].pc \in {"pop_lock", "push_lock"}

\* C15: a spinlock that is held is released, and by its holder.  The flag
\* is cleared only in a step of the thread that holds the lock; between its
\* lock and its unlock that thread does one operation on the Vec and
\* nothing else; a thread in the loop of lock is never the holder, so the
\* threads cannot all spin on a lock nobody will release; and, with the
\* threads scheduled fairly, locked leads to unlocked.
C15_LockReleased ==
  /\ [][(locked /\ ~locked') =>
          \E t \in Threads : HoldsLock(t) /\ ~HoldsLock(t)']_vars
  /\ [][\A t \in Threads : (HoldsLock(t) /\ thr'[t] # thr[t]) =>
          \/ (Pops(t) \/ Pushes(t)) /\ locked' /\ HoldsLock(t)'
          \/ /\ thr[t].pc \in {"pop_unlock", "push_unlock"}
             /\ ~locked' /\ ~HoldsLock(t)']_vars
  /\ [](\A t \in Threads : (Spinning(t) /\ locked) =>
          \E u \in Threads \ {t} : HoldsLock(u))
  /\ locked ~> ~locked

\* A drop has pushed its value and is about to unlock while another thread
\* spins.
C15_Witness ==
  \E t, u \in Threads :
    /\ thr[t].pc = "push_unlock" /\ thr[t].data = None /\ locked
    /\ Spinning(u)

\* C17: the data field of a guard is Some from the guard literal until drop
\* takes it, and drop takes it once; so every unwrap finds Some.  A guard
\* at rest, which deref and deref_mut may read, holds Some; a drop that has
\* not pushed yet got Some from self.data.take() and left None behind; and
\* a drop never calls put twice.
C17_DataIsSome ==
  /\ \A g \in BagToSet(guards) : g.data # None
  /\ \A t \in Threads :
       /\ thr[t].pc \in {"push_lock", "push_body"} =>
            thr[t].data # None /\ thr[t].puts = 0
       /\ InDrop(t) => thr[t].slot = None /\ thr[t].puts <= 1

\* A guard is at rest while the drop of another has taken its data and not
\* pushed it yet.
C17_Witness ==
  /\ guards # EmptyBag
  /\ \E t \in Threads :
       thr[t].pc = "push_lock" /\ thr[t].data # None /\ thr[t].slot = None

\* C16: given the same calls, get and get_ref hand out the same values,
\* run the constructor as often and leave the same Vec of spares; the pools
\* differ in the strong count alone, which get raises by one for every
\* Guard in existence and get_ref leaves as it is.
C16_GetEquivGetRef ==
  /\ twin.g.held = twin.r.held
  /\ twin.g.count = twin.r.count
  /\ twin.g.stack = twin.r.stack
  /\ twin.g.strong = twin.r.strong + Len(twin.g.held)
  /\ twin.r.strong = 1

\* Both pools have constructed three values, released two and handed one
\* of those out again.
C16_Witness ==
  /\ twin.g.count = 3 /\ twin.r.count = 3
  /\ twin.g.held = <<Dummy(1), Dummy(0)>> /\ twin.r.stack = <<Dummy(2)>>

\* The threads whose last get took the fast path.
Winners == {t \in Threads : aff[t].path = "fast"}

====
